---- MODULE Spec2Model ----
(***************************************************************************)
(* Hangman turn resolution: make_guess(game, guess) as implemented three   *)
(* times over (impl/nested.py, impl/indexed.py, impl/indexed_fns.py), and  *)
(* a harness in the manner of hangman_test.py that feeds the same guess to *)
(* each of the three subjects, each holding its own Game.                  *)
(***************************************************************************)
EXTENDS Integers, FiniteSets, Sequences, TLC

\* ------------------------------------------------------------------ bounds
\* Size of the guessing alphabet.
MaxLetters == 3
\* Largest guesses_left of an externally constructed Game.
MaxGuessesLeft == 2

\* ------------------------------------------------------------ data model
\* Letters used by the tests ('a', 'b', 'm'), then further ones.
AlphabetLetters == <<"a", "b", "m", "c", "d", "e">>

Alphabet == {AlphabetLetters[i] : i \in 1..MaxLetters}

\* The state tags a Game carries; "" is the tag create_game starts with.
Terminal == {"won", "lost"}

States == {"", "good_guess", "bad_guess", "already_guessed"} \cup Terminal

\* hangman.Game: every externally constructible value within the bounds.
Game == [state : States,
         guessed : SUBSET Alphabet,
         letters : SUBSET Alphabet,
         guesses_left : 0..MaxGuessesLeft]

\* The three implementations the test fixture runs over.
Subjects == {"nested", "indexed", "indexed_fns"}

\* Value of `guess` before the first letter is fed.
NoGuess == "?"

\* ------------------------------------------------------- impl/nested.py
\* Variant of maybe_won with the containment test the wrong way round.
nested_maybe_won_reversed(game) ==
    IF game.guessed \subseteq game.letters
    THEN [game EXCEPT !.state = "won"]
    ELSE [game EXCEPT !.state = "good_guess"]

nested_maybe_won(game) ==
    IF game.letters \subseteq game.guessed
    THEN [game EXCEPT !.state = "won"]
    ELSE [game EXCEPT !.state = "good_guess"]

\* Variant of score_guess whose losing test is off by one.
nested_score_guess_at_zero(game, guess) ==
    IF guess \in game.letters
    THEN nested_maybe_won(game)
    ELSE IF game.guesses_left = 0
         THEN [game EXCEPT !.guesses_left = 0, !.state = "lost"]
         ELSE [game EXCEPT !.guesses_left = game.guesses_left - 1,
                           !.state = "bad_guess"]

nested_score_guess(game, guess) ==
    IF guess \in game.letters
    THEN nested_maybe_won(game)
    ELSE IF game.guesses_left = 1
         THEN [game EXCEPT !.guesses_left = 0, !.state = "lost"]
         ELSE [game EXCEPT !.guesses_left = game.guesses_left - 1,
                           !.state = "bad_guess"]

\* Variant of accept_guess that scores the guess without recording it.
nested_accept_guess_unrecorded(game, guess) ==
    IF guess \in game.guessed
    THEN [game EXCEPT !.state = "already_guessed"]
    ELSE nested_score_guess(game, guess)

nested_accept_guess(game, guess) ==
    IF guess \in game.guessed
    THEN [game EXCEPT !.state = "already_guessed"]
    ELSE LET game2 == [game EXCEPT !.guessed = game.guessed \cup {guess}]
         IN  nested_score_guess(game2, guess)

\* Variant of make_guess whose guard forgets 'lost'.
nested_make_guess_won_only(game, guess) ==
    IF game.state \notin {"won"}
    THEN nested_accept_guess(game, guess)
    ELSE game

nested_make_guess(game, guess) ==
    IF game.state \notin {"won", "lost"}
    THEN nested_accept_guess(game, guess)
    ELSE game

\* ------------------------------------------------------ impl/indexed.py
indexed_is_game_already_over(game) ==
    game.state \in {"won", "lost"}

\* Variant of is_already_guessed that looks the guess up in the wrong set.
indexed_is_already_guessed_in_letters(game, guess) ==
    guess \in game.letters

indexed_is_already_guessed(game, guess) ==
    guess \in game.guessed

\* Variant of is_winning_guess simplified to a membership test.
indexed_is_winning_guess_simplified(game, guess) ==
    guess \in game.letters

indexed_is_winning_guess(game, guess) ==
    game.letters \subseteq (game.guessed \cup {guess})

\* Variant of is_losing_guess that is off by one.
indexed_is_losing_guess_at_zero(game, guess) ==
    guess \notin game.letters /\ game.guesses_left = 0

indexed_is_losing_guess(game, guess) ==
    guess \notin game.letters /\ game.guesses_left = 1

indexed_is_good_guess(game, guess) ==
    guess \in game.letters

indexed_make_guess(game, guess) ==
    IF indexed_is_game_already_over(game) THEN
        game
    ELSE IF indexed_is_already_guessed(game, guess) THEN
        [game EXCEPT !.state = "already_guessed"]
    ELSE IF indexed_is_winning_guess(game, guess) THEN
        [game EXCEPT !.state = "won",
                     !.guessed = game.guessed \cup {guess}]
    ELSE IF indexed_is_losing_guess(game, guess) THEN
        [game EXCEPT !.state = "lost",
                     !.guessed = game.guessed \cup {guess},
                     !.guesses_left = 0]
    ELSE IF indexed_is_good_guess(game, guess) THEN
        [game EXCEPT !.state = "good_guess",
                     !.guessed = game.guessed \cup {guess}]
    ELSE
        [game EXCEPT !.state = "bad_guess",
                     !.guessed = game.guessed \cup {guess},
                     !.guesses_left = game.guesses_left - 1]

\* -------------------------------------------------- impl/indexed_fns.py
is_game_already_over(game) ==
    game.state \in {"won", "lost"}

is_already_guessed(game, guess) ==
    guess \in game.guessed

\* Variant of is_winning_guess that compares sizes instead of contents.
is_winning_guess_by_count(game, guess) ==
    Cardinality(game.guessed \cup {guess}) >= Cardinality(game.letters)

is_winning_guess(game, guess) ==
    game.letters \subseteq (game.guessed \cup {guess})

\* Variant of is_losing_guess that is off by one.
is_losing_guess_at_zero(game, guess) ==
    guess \notin game.letters /\ game.guesses_left = 0

is_losing_guess(game, guess) ==
    guess \notin game.letters /\ game.guesses_left = 1

is_good_guess(game, guess) ==
    guess \in game.letters

already_guessed(game) ==
    [game EXCEPT !.state = "already_guessed"]

\* Variant of win that replaces the guessed set instead of extending it.
win_replacing_guessed(game, guess) ==
    [game EXCEPT !.state = "won",
                 !.guessed = {guess}]

win(game, guess) ==
    [game EXCEPT !.state = "won",
                 !.guessed = game.guessed \cup {guess}]

\* Variant of lose that writes the extended set into the wrong field.
lose_into_letters(game, guess) ==
    [game EXCEPT !.state = "lost",
                 !.letters = game.guessed \cup {guess},
                 !.guesses_left = 0]

\* Variant of lose that does not record the guess.
lose_unrecorded(game, guess) ==
    [game EXCEPT !.state = "lost",
                 !.guesses_left = 0]

lose(game, guess) ==
    [game EXCEPT !.state = "lost",
                 !.guessed = game.guessed \cup {guess},
                 !.guesses_left = 0]

\* Variant of good_guess that charges a guess.
good_guess_charged(game, guess) ==
    [game EXCEPT !.state = "good_guess",
                 !.guessed = game.guessed \cup {guess},
                 !.guesses_left = game.guesses_left - 1]

good_guess(game, guess) ==
    [game EXCEPT !.state = "good_guess",
                 !.guessed = game.guessed \cup {guess}]

\* Variant of bad_guess that forgets to charge the guess.
bad_guess_uncharged(game, guess) ==
    [game EXCEPT !.state = "bad_guess",
                 !.guessed = game.guessed \cup {guess}]

bad_guess(game, guess) ==
    [game EXCEPT !.state = "bad_guess",
                 !.guessed = game.guessed \cup {guess},
                 !.guesses_left = game.guesses_left - 1]

indexed_fns_make_guess(game, guess) ==
    IF is_game_already_over(game) THEN game
    ELSE IF is_already_guessed(game, guess) THEN already_guessed(game)
    ELSE IF is_winning_guess(game, guess) THEN win(game, guess)
    ELSE IF is_losing_guess(game, guess) THEN lose(game, guess)
    ELSE IF is_good_guess(game, guess) THEN good_guess(game, guess)
    ELSE bad_guess(game, guess)

\* ------------------------------------------------------------ the harness
VARIABLES
    game,     \* game[s]: the Game subject s currently holds
    given,    \* given[s]: the Game subject s held when `guess` was fed
    guess,    \* the letter being resolved (NoGuess before the first one)
    pending,  \* the subjects that have not yet resolved `guess`
    start     \* the Game as it was constructed, before any guess

vars == <<game, given, guess, pending, start>>

\* Any externally constructed Game, handed to all three subjects.
Init ==
    /\ \E g \in Game : game = [s \in Subjects |-> g] /\ start = g
    /\ given = game
    /\ guess = NoGuess
    /\ pending = {}

\* The caller feeds the next letter once every subject resolved the last one.
Guess(x) ==
    /\ pending = {}
    /\ guess' = x
    /\ given' = game
    /\ pending' = Subjects
    /\ UNCHANGED <<game, start>>

NestedMakeGuess ==
    /\ "nested" \in pending
    /\ game' = [game EXCEPT !["nested"] = nested_make_guess(game["nested"], guess)]
    /\ pending' = pending \ {"nested"}
    /\ UNCHANGED <<given, guess, start>>

IndexedMakeGuess ==
    /\ "indexed" \in pending
    /\ game' = [game EXCEPT !["indexed"] = indexed_make_guess(game["indexed"], guess)]
    /\ pending' = pending \ {"indexed"}
    /\ UNCHANGED <<given, guess, start>>

IndexedFnsMakeGuess ==
    /\ "indexed_fns" \in pending
    /\ game' = [game EXCEPT !["indexed_fns"] =
                    indexed_fns_make_guess(game["indexed_fns"], guess)]
    /\ pending' = pending \ {"indexed_fns"}
    /\ UNCHANGED <<given, guess, start>>

Next ==
    \/ \E x \in Alphabet : Guess(x)
    \/ NestedMakeGuess
    \/ IndexedMakeGuess
    \/ IndexedFnsMakeGuess

Spec == Init /\ [][Next]_vars

\* A Game as the caller is to construct it for play: a non-terminal state
\* tag, nothing guessed, a non-empty word, at least one guess.
ValidInitialGame ==
    {g \in Game : /\ g.state \notin Terminal
                  /\ g.guessed = {}
                  /\ g.letters # {}
                  /\ g.guesses_left >= 1}

InitPlay ==
    /\ \E g \in ValidInitialGame : game = [s \in Subjects |-> g] /\ start = g
    /\ given = game
    /\ guess = NoGuess
    /\ pending = {}

\* Games played from a valid initial Game.
SpecPlay == InitPlay /\ [][Next]_vars

\* A Game constructed with nothing guessed and at least one guess, whatever
\* its state tag and its word (the word may be empty, as in create_game).
FreshGame ==
    {g \in Game : g.guessed = {} /\ g.guesses_left >= 1}

InitFresh ==
    /\ \E g \in FreshGame : game = [s \in Subjects |-> g] /\ start = g
    /\ given = game
    /\ guess = NoGuess
    /\ pending = {}

\* Games played from a fresh Game.
SpecFresh == InitFresh /\ [][Next]_vars

\* Subject s has resolved the current guess: game[s] = make_guess(given[s], guess).
Acted(s) == guess # NoGuess /\ s \notin pending

TypeOK ==
    /\ \A s \in Subjects :
          /\ game[s].state \in States
          /\ game[s].guessed \subseteq Alphabet
          /\ game[s].letters \subseteq Alphabet
          /\ game[s].guesses_left \in Int
    /\ guess \in Alphabet \cup {NoGuess}
    /\ pending \subseteq Subjects

\* ------------------------------------------------------------- properties
NonTerminal(g) == g.state \notin Terminal

\* Rule 3 of the decision order: the guess completes the word.
WinApplies(g, x) == g.letters \subseteq (g.guessed \cup {x})

\* Every subject has resolved the current guess.
AllActed == guess # NoGuess /\ pending = {}

\* C1: terminal states are absorbing. In every step, a subject whose Game is
\* won or lost keeps that Game with all four fields unchanged, whichever
\* implementation resolves whichever letter.
C1_TerminalAbsorbing ==
    [][\A s \in Subjects : game[s].state \in Terminal => game'[s] = game[s]]_vars

\* A lost Game has been fed a new letter and all three subjects returned it
\* unchanged.
C1_Witness ==
    /\ AllActed
    /\ \A s \in Subjects :
          /\ given[s].state = "lost"
          /\ guess \notin given[s].guessed
          /\ game[s] = given[s]

\* C2: winning guess rule. For a non-terminal Game and a new letter x with
\* letters a subset of guessed + {x}, every implementation returns the Game
\* with state won, guessed + {x}, letters and guesses_left unchanged, also
\* when x is not in letters or guesses_left is 1.
C2_WinningGuess ==
    \A s \in Subjects :
        ( /\ Acted(s)
          /\ NonTerminal(given[s])
          /\ guess \notin given[s].guessed
          /\ WinApplies(given[s], guess) )
        => game[s] = [given[s] EXCEPT !.state = "won",
                                      !.guessed = given[s].guessed \cup {guess}]

\* C3: the three implementations are behaviourally identical. Handed the
\* same Game and the same letter, nested, indexed and indexed_fns return
\* equal Games.
C3_Identical ==
    ( /\ AllActed
      /\ given["nested"] = given["indexed"]
      /\ given["indexed"] = given["indexed_fns"] )
    => ( /\ game["nested"] = game["indexed"]
         /\ game["indexed"] = game["indexed_fns"] )

\* C4: repeat-guess stability. For a non-terminal Game and a letter already
\* in guessed, the result is the Game with state already_guessed and
\* guessed, letters and guesses_left unchanged.
C4_RepeatGuess ==
    \A s \in Subjects :
        ( /\ Acted(s)
          /\ NonTerminal(given[s])
          /\ guess \in given[s].guessed )
        => game[s] = [given[s] EXCEPT !.state = "already_guessed"]

\* A wrong letter repeated on the last guess has been resolved by all three.
C4_Witness ==
    /\ AllActed
    /\ \A s \in Subjects :
          /\ NonTerminal(given[s])
          /\ guess \in given[s].guessed
          /\ guess \notin given[s].letters
          /\ given[s].guesses_left = 1
          /\ game[s].state = "already_guessed"

\* C5: losing guess rule. For a non-terminal Game and a new letter outside
\* letters, with the winning rule not applicable and guesses_left = 1, the
\* result has state lost, guessed + {x}, guesses_left 0, letters unchanged.
C5_LosingGuess ==
    \A s \in Subjects :
        ( /\ Acted(s)
          /\ NonTerminal(given[s])
          /\ guess \notin given[s].guessed
          /\ ~WinApplies(given[s], guess)
          /\ guess \notin given[s].letters
          /\ given[s].guesses_left = 1 )
        => game[s] = [given[s] EXCEPT !.state = "lost",
                                      !.guessed = given[s].guessed \cup {guess},
                                      !.guesses_left = 0]

\* All three subjects have lost on a wrong last guess.
C5_Witness ==
    /\ AllActed
    /\ \A s \in Subjects :
          /\ NonTerminal(given[s])
          /\ guess \notin given[s].guessed
          /\ ~WinApplies(given[s], guess)
          /\ guess \notin given[s].letters
          /\ given[s].guesses_left = 1
          /\ game[s].state = "lost"

\* C6: bad guess rule. For a non-terminal Game and a new letter outside
\* letters, with the winning rule not applicable and guesses_left > 1, the
\* result has state bad_guess, guessed + {x}, guesses_left - 1, letters
\* unchanged.
C6_BadGuess ==
    \A s \in Subjects :
        ( /\ Acted(s)
          /\ NonTerminal(given[s])
          /\ guess \notin given[s].guessed
          /\ ~WinApplies(given[s], guess)
          /\ guess \notin given[s].letters
          /\ given[s].guesses_left > 1 )
        => game[s] = [given[s] EXCEPT !.state = "bad_guess",
                                      !.guessed = given[s].guessed \cup {guess},
                                      !.guesses_left = given[s].guesses_left - 1]

\* All three subjects have resolved a wrong guess with guesses to spare.
C6_Witness ==
    /\ AllActed
    /\ \A s \in Subjects :
          /\ NonTerminal(given[s])
          /\ guess \notin given[s].guessed
          /\ ~WinApplies(given[s], guess)
          /\ guess \notin given[s].letters
          /\ given[s].guesses_left > 1
          /\ game[s].state = "bad_guess"

\* C7: good guess rule. For a non-terminal Game and a new letter in letters
\* that does not complete the word, the result has state good_guess,
\* guessed + {x}, guesses_left and letters unchanged, also at guesses_left 1.
C7_GoodGuess ==
    \A s \in Subjects :
        ( /\ Acted(s)
          /\ NonTerminal(given[s])
          /\ guess \notin given[s].guessed
          /\ guess \in given[s].letters
          /\ ~WinApplies(given[s], guess) )
        => game[s] = [given[s] EXCEPT !.state = "good_guess",
                                      !.guessed = given[s].guessed \cup {guess}]

\* All three subjects have resolved a correct, non-final letter on the last
\* guess.
C7_Witness ==
    /\ AllActed
    /\ \A s \in Subjects :
          /\ NonTerminal(given[s])
          /\ guess \notin given[s].guessed
          /\ guess \in given[s].letters
          /\ ~WinApplies(given[s], guess)
          /\ given[s].guesses_left = 1
          /\ game[s].state = "good_guess"

\* C8: guesses_left never goes below 0. Starting from any Game whose
\* guesses_left is a non-negative integer, every Game reached by make_guess
\* calls has guesses_left >= 0.
C8_GuessesLeftNonNegative ==
    \A s \in Subjects : game[s].guesses_left >= 0

\* C9: the guessed set only grows. In every step each subject's guessed set
\* is a superset of what it was and gains at most the letter being
\* resolved, so no guessed letter is ever lost over a sequence of guesses.
C9_GuessedOnlyGrows ==
    [][\A s \in Subjects :
          /\ game[s].guessed \subseteq game'[s].guessed
          /\ (game'[s].guessed \ game[s].guessed) \subseteq {guess'}]_vars

\* All three subjects have added a new letter to a non-empty guessed set.
C9_Witness ==
    /\ AllActed
    /\ \A s \in Subjects :
          /\ given[s].guessed # {}
          /\ guess \notin given[s].guessed
          /\ game[s].guessed = given[s].guessed \cup {guess}

\* C10: guesses_left is non-increasing and drops by exactly 1 per accepted
\* wrong guess. The result's guesses_left is the input's minus 1 exactly
\* when this call produced bad_guess or lost (a new letter outside
\* letters), and is the input's in every other case.
C10_GuessesLeftAccounting ==
    \A s \in Subjects :
        Acted(s) =>
            LET g == given[s]
                r == game[s]
                wrong == /\ NonTerminal(g)
                         /\ guess \notin g.guessed
                         /\ r.state \in {"bad_guess", "lost"}
            IN  /\ r.guesses_left <= g.guesses_left
                /\ (r.guesses_left = g.guesses_left - 1) <=> wrong
                /\ ~wrong => r.guesses_left = g.guesses_left
                /\ wrong => guess \notin g.letters

\* Every subject has been charged exactly one guess for a wrong letter, and
\* the Game it was given had itself come out of a free (good) guess.
C10_Witness ==
    /\ AllActed
    /\ \A s \in Subjects :
          /\ given[s].state = "good_guess"
          /\ game[s].state = "bad_guess"
          /\ game[s].guesses_left = given[s].guesses_left - 1

\* C11: the secret letters set is never changed. In every step, whichever
\* rule of whichever implementation resolves the guess, each subject's
\* letters stay what they were, so letters is constant over a whole game.
C11_LettersImmutable ==
    [][\A s \in Subjects : game'[s].letters = game[s].letters]_vars

\* All three subjects have resolved a losing guess on a Game with a
\* non-empty word, which is still the word the Game was constructed with.
C11_Witness ==
    /\ AllActed
    /\ \A s \in Subjects :
          /\ given[s].state \notin Terminal
          /\ game[s].state = "lost"
          /\ game[s].letters # {}
          /\ game[s].letters = start.letters

\* The six rules of the decision order: the condition of rule k, taken alone.
RuleMatches(k, g, x) ==
    CASE k = 1 -> g.state \in Terminal
      [] k = 2 -> x \in g.guessed
      [] k = 3 -> g.letters \subseteq (g.guessed \cup {x})
      [] k = 4 -> x \notin g.letters /\ g.guesses_left = 1
      [] k = 5 -> x \in g.letters
      [] k = 6 -> TRUE

\* The Game rule k returns.
RuleResult(k, g, x) ==
    CASE k = 1 -> g
      [] k = 2 -> [g EXCEPT !.state = "already_guessed"]
      [] k = 3 -> [g EXCEPT !.state = "won", !.guessed = g.guessed \cup {x}]
      [] k = 4 -> [g EXCEPT !.state = "lost", !.guessed = g.guessed \cup {x},
                            !.guesses_left = 0]
      [] k = 5 -> [g EXCEPT !.state = "good_guess",
                            !.guessed = g.guessed \cup {x}]
      [] k = 6 -> [g EXCEPT !.state = "bad_guess",
                            !.guessed = g.guessed \cup {x},
                            !.guesses_left = g.guesses_left - 1]

\* The first rule of the decision order whose condition holds.
FirstMatch(g, x) ==
    CHOOSE k \in 1..6 :
        /\ RuleMatches(k, g, x)
        /\ \A j \in 1..(k - 1) : ~RuleMatches(j, g, x)

\* The result is a Game, and its state is the input's (terminal guard) or
\* one of the five tags the rules set.
ReturnsGame(g, r) ==
    /\ r.state \in States
    /\ r.guessed \subseteq Alphabet
    /\ r.letters \subseteq Alphabet
    /\ r.guesses_left \in Int
    /\ g.state \in Terminal => r.state = g.state
    /\ g.state \notin Terminal =>
          r.state \in {"already_guessed", "won", "lost", "good_guess", "bad_guess"}

\* C12: make_guess is total and its transitions are exactly the six rules.
\* For every Game and letter, every implementation returns a Game, the one
\* the first matching rule of the decision order gives, whose state is the
\* unchanged input state (terminal guard only) or one of already_guessed,
\* won, lost, good_guess, bad_guess.
C12_TotalSixRules ==
    \A s \in Subjects :
        Acted(s) =>
            /\ ReturnsGame(given[s], game[s])
            /\ game[s] = RuleResult(FirstMatch(given[s], guess), given[s], guess)

\* The part of C12 that holds of all three implementations: a Game comes
\* back, it is what one of the six rules gives, and indexed and indexed_fns
\* take the first matching rule.
C12_TotalOutcomes ==
    \A s \in Subjects :
        Acted(s) =>
            /\ ReturnsGame(given[s], game[s])
            /\ \E k \in 1..6 : game[s] = RuleResult(k, given[s], guess)
            /\ s # "nested" =>
                  game[s] = RuleResult(FirstMatch(given[s], guess), given[s], guess)

\* C13 as stated: in a game played from a Game constructed with a
\* non-terminal state, nothing guessed, some letters set and at least one
\* guess, a call whose result state changes to won resolved a letter of
\* letters.
C13_WinNeedsLetter ==
    \A s \in Subjects :
        ( /\ Acted(s)
          /\ NonTerminal(start)
          /\ given[s].state # "won"
          /\ game[s].state = "won" )
        => guess \in given[s].letters

\* C13, amended: the same, for Games whose letters set is not empty.
C13_WinNeedsLetterNonEmpty ==
    \A s \in Subjects :
        ( /\ Acted(s)
          /\ NonTerminal(start)
          /\ start.letters # {}
          /\ given[s].state # "won"
          /\ game[s].state = "won" )
        => guess \in given[s].letters

\* All three subjects have just won a game on a word of two or more
\* letters, after at least one wrong guess.
C13_Witness ==
    /\ AllActed
    /\ NonTerminal(start)
    /\ Cardinality(start.letters) >= 2
    /\ \A s \in Subjects :
          /\ given[s].state # "won"
          /\ game[s].state = "won"
          /\ game[s].guessed \ game[s].letters # {}

\* C14: played from a valid initial Game, the three implementations stay in
\* lock-step. Whenever all three have resolved the guesses fed so far,
\* they hold equal Games.
C14_LockStep ==
    pending = {} =>
        /\ game["nested"] = game["indexed"]
        /\ game["indexed"] = game["indexed_fns"]

\* All three have resolved a second guess, a wrong one after a good one,
\* and hold the same Game.
C14_Witness ==
    /\ AllActed
    /\ game["nested"] = game["indexed"]
    /\ game["indexed"] = game["indexed_fns"]
    /\ \A s \in Subjects :
          /\ given[s].state = "good_guess"
          /\ given[s].guessed # {}
          /\ game[s].state = "bad_guess"

\* C15: in every state reached from a valid initial Game, state = won if
\* and only if letters is a subset of guessed.
C15_WonIffCovered ==
    \A s \in Subjects :
        (game[s].state = "won") <=> (game[s].letters \subseteq game[s].guessed)

\* All three subjects have won on a word of two or more letters.
C15_Witness ==
    /\ AllActed
    /\ \A s \in Subjects :
          /\ given[s].state # "won"
          /\ game[s].state = "won"
          /\ Cardinality(game[s].letters) >= 2
          /\ game[s].letters \subseteq game[s].guessed

\* C16: in every state reached from a valid initial Game, state = lost if
\* and only if guesses_left = 0.
C16_LostIffNoGuessesLeft ==
    \A s \in Subjects :
        (game[s].state = "lost") <=> (game[s].guesses_left = 0)

\* All three subjects have lost a game that started with two or more
\* guesses.
C16_Witness ==
    /\ AllActed
    /\ start.guesses_left >= 2
    /\ \A s \in Subjects :
          /\ given[s].state # "lost"
          /\ game[s].state = "lost"
          /\ game[s].guesses_left = 0

\* Wrong letters among the guessed ones.
WrongGuessed(g) == g.guessed \ g.letters

\* C17 as stated: for a game started with nothing guessed and
\* guesses_left = G >= 1, every reachable state has
\* guesses_left + |guessed \ letters| = G.
C17_WrongGuessAccounting ==
    \A s \in Subjects :
        game[s].guesses_left + Cardinality(WrongGuessed(game[s]))
            = start.guesses_left

\* C17, amended: the same, for games whose letters set is not empty.
C17_WrongGuessAccountingNonEmpty ==
    \A s \in Subjects :
        start.letters # {} =>
            game[s].guesses_left + Cardinality(WrongGuessed(game[s]))
                = start.guesses_left

\* All three subjects have been charged for a wrong letter in a game in
\* which a correct letter was guessed too.
C17_Witness ==
    /\ AllActed
    /\ start.letters # {}
    /\ \A s \in Subjects :
          /\ WrongGuessed(game[s]) # {}
          /\ game[s].guessed \cap game[s].letters # {}
          /\ game[s].guesses_left < start.guesses_left

\* C18: from a valid initial Game with guesses_left = G, guessing only new
\* letters ends the game within |letters| + G - 1 guesses. Every new letter
\* resolved on a non-terminal Game adds one to guessed, and a Game with
\* |letters| + G - 1 guessed letters is won or lost.
C18_EndsWithinBound ==
    \A s \in Subjects :
        /\ NonTerminal(game[s]) =>
              Cardinality(game[s].guessed)
                  < Cardinality(start.letters) + start.guesses_left - 1
        /\ ( /\ Acted(s)
             /\ NonTerminal(given[s])
             /\ guess \notin given[s].guessed )
           => Cardinality(game[s].guessed) = Cardinality(given[s].guessed) + 1

\* All three subjects have ended a game on exactly the last guess the bound
\* allows, with a word of two or more letters and two or more guesses.
C18_Witness ==
    /\ AllActed
    /\ Cardinality(start.letters) >= 2
    /\ start.guesses_left >= 2
    /\ \A s \in Subjects :
          /\ NonTerminal(given[s])
          /\ game[s].state \in Terminal
          /\ Cardinality(game[s].guessed)
                = Cardinality(start.letters) + start.guesses_left - 1

====
